---- MODULE Spec2Model ----
(***************************************************************************)
(* custom_unification.py: an extension type parameterised by a value type, *)
(* its custom unify() and the cast that wraps a value into the extension   *)
(* struct.                                                                 *)
(*                                                                         *)
(* A type is written [wraps |-> n, base |-> b]: the base type b inside n   *)
(* levels of ExtensionType.  The same shape is used for                    *)
(*   - type EXPRESSIONS, what a caller writes, e.g.                        *)
(*     ExtensionType(types.float64) = [wraps |-> 1, base |-> "float64"];   *)
(*   - type OBJECTS, what the constructor call actually returns.           *)
(* The two differ because ExtensionType.__init__ passes the fixed          *)
(* name "Extension" to types.Type.__init__: the host's Type uses the name  *)
(* as its key for ==, hash and the interning of instances, so every        *)
(* ExtensionType call made while an ExtensionType object is alive returns  *)
(* that object.                                                            *)
(*                                                                         *)
(* The host compiler is followed as far as the script drives it:           *)
(*   - types.Type: key = name; == is "same class and same key"; the        *)
(*     constructor call interns the new instance under that equality;      *)
(*   - context.unify_pairs(first, second): first if first == second, else  *)
(*     first.unify(second), else second.unify(first), else a safe          *)
(*     conversion one way or the other, else None;                         *)
(*   - context.cast(val, fromty, toty): val if fromty == toty, else the    *)
(*     registered lower_cast implementation.                               *)
(* Operand types are the unliteral types of the two return statements.     *)
(***************************************************************************)
EXTENDS Integers, Sequences, FiniteSets, TLC

VARIABLES
    typecache,   \* the live interned ExtensionType object, or NoneT
    held,        \* TRUE when the caller keeps its operand types (signature)
    req,         \* <<A, B>>: the operand types as the caller wrote them
    ops,         \* <<A, B>>: the operand type objects the calls returned
    stack,       \* call stack of unify_pairs / ExtensionType.unify frames
    ret,         \* value returned by the frame that finished last
    result,      \* outcome of the outermost unify_pairs
    pc,          \* phase of the compilation
    swapped,     \* TRUE once the same objects are unified in reverse order
    prev,        \* outcome of the unification before the operands swapped
    casts,       \* cast descriptors still to lower
    lowered,     \* per operand position: what lowering did to the value
    maxdepth     \* most ExtensionType.unify frames ever on the stack

vars == <<typecache, held, req, ops, stack, ret, result, pc, swapped, prev,
          casts, lowered, maxdepth>>

----------------------------------------------------------------------------
(* Bounds *)

\* deepest ExtensionType nesting a caller writes
MaxNest == 2

\* deepest call stack the model follows
MaxStack == 6

----------------------------------------------------------------------------
(* Types *)

Numbers == {"int64", "uint32", "float32", "float64"}

TupleName == "UniTuple(int64 x 2)"

Bases == Numbers \cup {TupleName}

\* Python's None: "no common type", and the empty slot of the intern cache
NoneT == [wraps |-> 0, base |-> "None"]

TypeExprs == [wraps : 0..MaxNest, base : Bases]

\* self.value = value: the instance __init__ builds around `value`
ExtInit(value) == [wraps |-> value.wraps + 1, base |-> value.base]

\* self.value
Value(t) == [wraps |-> t.wraps - 1, base |-> t.base]

\* the Python class of a type object
ClassOf(t) ==
    IF t.wraps > 0 THEN "ExtensionType"
    ELSE IF t.base \in Numbers THEN "Number"
    ELSE IF t.base = TupleName THEN "UniTuple"
    ELSE "NoneType"

\* super().__init__(name="Extension"): the name does not mention the value
ExtName(t) == "Extension"

\* Type.key is the name
Key(t) == IF t.wraps > 0 THEN ExtName(t) ELSE t.base

\* a mutated equality under which no two extension types compare equal
TypeEqNeverExt(a, b) == a.wraps = 0 /\ ClassOf(a) = ClassOf(b) /\ Key(a) = Key(b)

\* Type.__eq__: same class and same key
TypeEq(a, b) == ClassOf(a) = ClassOf(b) /\ Key(a) = Key(b)

\* the interning every Type constructor call ends with: an equal live
\* instance is returned in place of the new one
Intern(cache, inst) ==
    IF cache # NoneT /\ TypeEq(cache, inst) THEN cache ELSE inst

\* ExtensionType(value)
ExtensionTypeCall(cache, value) == Intern(cache, ExtInit(value))

\* the intern cache after a constructor call returned obj
CacheAfter(cache, obj) == IF obj.wraps > 0 THEN obj ELSE cache

\* evaluating a type expression, innermost constructor call first
RECURSIVE Construct(_, _)
Construct(cache, expr) ==
    IF expr.wraps = 0 THEN expr
    ELSE LET inner == Construct(cache, Value(expr))
         IN  ExtensionTypeCall(CacheAfter(cache, inner), inner)

----------------------------------------------------------------------------
(* The host's rules for the types that are not extension types *)

\* numpy.promote_types on the four number types
Promote(a, b) ==
    IF a = b THEN a
    ELSE IF {a, b} = {"uint32", "int64"} THEN "int64"
    ELSE "float64"

\* first.unify(context, second) of a type that is not an ExtensionType:
\* Number.unify promotes two numbers; everything else answers None
HostUnify(first, second) ==
    IF ClassOf(first) = "Number" /\ ClassOf(second) = "Number"
    THEN [wraps |-> 0, base |-> Promote(first.base, second.base)]
    ELSE NoneT

\* can_convert(fromty, toty) answers a safe conversion: only between numbers,
\* when widening fromty gives toty
CanConvertSafe(fromty, toty) ==
    /\ ClassOf(fromty) = "Number"
    /\ ClassOf(toty) = "Number"
    /\ Promote(fromty.base, toty.base) = toty.base

\* the last resort of unify_pairs: a safe conversion one way or the other
ConversionFallback(first, second) ==
    IF CanConvertSafe(first, second) THEN second
    ELSE IF CanConvertSafe(second, first) THEN first
    ELSE NoneT

----------------------------------------------------------------------------
(* Lowering of a cast *)

\* Lowering is followed on the layout of the value: the type whose data model
\* the value is stored as.
RECURSIVE ContextCast(_, _)

\* cast_primitive_to_extension(context, builder, fromty, toty, val): cast val
\* to toty.value, then store the outcome in a fresh extension struct
cast_primitive_to_extension(fromty, toty) ==
    LET casted == ContextCast(fromty, Value(toty))
    IN  IF casted.impl = "error"
        THEN casted
        ELSE [impl |-> "wrap", layout |-> ExtInit(casted.layout)]

\* context.cast(builder, val, fromty, toty): equal types return val as it is;
\* otherwise the registered implementation runs: the one above for any source
\* and an ExtensionType target, the host's own between two numbers, and none
\* for anything else (NotImplementedError)
ContextCast(fromty, toty) ==
    IF TypeEq(fromty, toty)
    THEN [impl |-> "exact", layout |-> fromty]
    ELSE IF ClassOf(toty) = "ExtensionType"
    THEN cast_primitive_to_extension(fromty, toty)
    ELSE IF ClassOf(fromty) = "Number" /\ ClassOf(toty) = "Number"
    THEN [impl |-> "convert", layout |-> toty]
    ELSE [impl |-> "error", layout |-> NoneT]

\* an operand that needs no cast keeps its value
NoCast(t) == [impl |-> "nocast", layout |-> t]

\* resolveCasts(unified, operands): one descriptor per operand whose type
\* differs from the unified type, in operand order
RECURSIVE ResolveFrom(_, _, _)
ResolveFrom(unified, operands, pos) ==
    IF pos > Len(operands) THEN <<>>
    ELSE (IF operands[pos] # unified
          THEN <<[from |-> operands[pos], to |-> unified, pos |-> pos]>>
          ELSE <<>>) \o ResolveFrom(unified, operands, pos + 1)

resolveCasts(unified, operands) == ResolveFrom(unified, operands, 1)

----------------------------------------------------------------------------
(* The call stack *)

Frame(fn, first, second, at) ==
    [fn |-> fn, first |-> first, second |-> second, at |-> at]

Top == stack[Len(stack)]

\* the stack with the top frame moved on to label `at`
TopAt(at) == [stack EXCEPT ![Len(stack)].at = at]

\* ExtensionType.unify frames on a stack
UnifyDepth(s) == Cardinality({i \in 1..Len(s) : s[i].fn = "unify"})

\* the top frame returns v to its caller, or to the compiler when it is the
\* outermost unify_pairs
Return(v) ==
    /\ stack' = SubSeq(stack, 1, Len(stack) - 1)
    /\ ret' = v
    /\ IF Len(stack) = 1
       THEN /\ result' = v
            /\ pc' = IF v = NoneT THEN "failed" ELSE "unified"
       ELSE UNCHANGED <<result, pc>>

\* unify_pairs calls t.unify(context, other) and goes on at label `at`:
\* ExtensionType.unify is a frame of its own, any other type answers at once
Dispatch(t, other, at) ==
    IF ClassOf(t) = "ExtensionType"
    THEN /\ Len(stack) < MaxStack
         /\ stack' = Append(TopAt(at), Frame("unify", t, other, "start"))
         /\ maxdepth' = IF UnifyDepth(stack') > maxdepth
                        THEN UnifyDepth(stack') ELSE maxdepth
         /\ UNCHANGED <<ret, result, pc>>
    ELSE /\ stack' = TopAt(at)
         /\ ret' = HostUnify(t, other)
         /\ UNCHANGED <<result, pc, maxdepth>>

----------------------------------------------------------------------------
(* Initial state: nothing constructed, nothing compiled *)

Idle ==
    /\ req = <<NoneT, NoneT>>
    /\ ops = <<NoneT, NoneT>>
    /\ stack = <<>>
    /\ ret = NoneT
    /\ result = NoneT
    /\ swapped = FALSE
    /\ prev = NoneT
    /\ casts = <<>>
    /\ lowered = <<NoCast(NoneT), NoCast(NoneT)>>
    /\ maxdepth = 0

Init ==
    /\ typecache = NoneT
    /\ held = FALSE
    /\ pc = "idle"
    /\ Idle

----------------------------------------------------------------------------
(* Actions *)

\* signature = (A, B) is built, each ExtensionType call going through the
\* intern cache, and a function returning an A on one branch and a B on the
\* other is compiled: typing has to unify the two return types
Compile(a, b, h) ==
    /\ pc = "idle"
    /\ LET objA == Construct(typecache, a)
           c1   == CacheAfter(typecache, objA)
           objB == Construct(c1, b)
       IN  /\ typecache' = CacheAfter(c1, objB)
           /\ ops' = <<objA, objB>>
           /\ stack' = <<Frame("unify_pairs", objA, objB, "start")>>
    /\ req' = <<a, b>>
    /\ held' = h
    /\ pc' = "typing"
    /\ UNCHANGED <<ret, result, swapped, prev, casts, lowered, maxdepth>>

\* unify_pairs: if first == second: return first
UnifyPairsEqual ==
    /\ pc = "typing"
    /\ Top.fn = "unify_pairs" /\ Top.at = "start"
    /\ TypeEq(Top.first, Top.second)
    /\ Return(Top.first)
    /\ UNCHANGED <<typecache, held, req, ops, swapped, prev, casts, lowered,
                   maxdepth>>

\* unify_pairs: unified = first.unify(self, second)
UnifyPairsFirst ==
    /\ pc = "typing"
    /\ Top.fn = "unify_pairs" /\ Top.at = "start"
    /\ ~TypeEq(Top.first, Top.second)
    /\ Dispatch(Top.first, Top.second, "after_first")
    /\ UNCHANGED <<typecache, held, req, ops, swapped, prev, casts, lowered>>

\* a mutated unify_pairs that gives up when first.unify() found nothing
UnifyPairsFirstOnly ==
    /\ pc = "typing"
    /\ Top.fn = "unify_pairs" /\ Top.at = "after_first"
    /\ Return(ret)
    /\ UNCHANGED <<typecache, held, req, ops, swapped, prev, casts, lowered,
                   maxdepth>>

\* unify_pairs: return it if it is not None, else
\* unified = second.unify(self, first)
UnifyPairsSecond ==
    /\ pc = "typing"
    /\ Top.fn = "unify_pairs" /\ Top.at = "after_first"
    /\ IF ret # NoneT
       THEN Return(ret) /\ UNCHANGED maxdepth
       ELSE Dispatch(Top.second, Top.first, "after_second")
    /\ UNCHANGED <<typecache, held, req, ops, swapped, prev, casts, lowered>>

\* unify_pairs: return it if it is not None, else try a safe conversion one
\* way or the other, else return None
UnifyPairsFinish ==
    /\ pc = "typing"
    /\ Top.fn = "unify_pairs" /\ Top.at = "after_second"
    /\ IF ret # NoneT
       THEN Return(ret)
       ELSE Return(ConversionFallback(Top.first, Top.second))
    /\ UNCHANGED <<typecache, held, req, ops, swapped, prev, casts, lowered,
                   maxdepth>>

\* a mutated ExtensionType.unify that unifies itself, not its value type
ExtUnifyCallSelf ==
    /\ pc = "typing"
    /\ Top.fn = "unify" /\ Top.at = "start"
    /\ Len(stack) < MaxStack
    /\ stack' = Append(TopAt("after_pairs"),
                       Frame("unify_pairs", Top.first, Top.second, "start"))
    /\ UNCHANGED <<typecache, held, req, ops, ret, result, pc, swapped, prev,
                   casts, lowered, maxdepth>>

\* ExtensionType.unify: unified = context.unify_pairs(self.value, other)
ExtUnifyCall ==
    /\ pc = "typing"
    /\ Top.fn = "unify" /\ Top.at = "start"
    /\ Len(stack) < MaxStack
    /\ stack' = Append(TopAt("after_pairs"),
                       Frame("unify_pairs", Value(Top.first), Top.second,
                             "start"))
    /\ UNCHANGED <<typecache, held, req, ops, ret, result, pc, swapped, prev,
                   casts, lowered, maxdepth>>

\* a mutated ExtensionType.unify without the test for None
ExtUnifyReturnUnchecked ==
    /\ pc = "typing"
    /\ Top.fn = "unify" /\ Top.at = "after_pairs"
    /\ LET obj == ExtensionTypeCall(typecache, ret)
       IN  /\ typecache' = CacheAfter(typecache, obj)
           /\ Return(obj)
    /\ UNCHANGED <<held, req, ops, swapped, prev, casts, lowered, maxdepth>>

\* ExtensionType.unify: if unified is None: return None;
\* return ExtensionType(unified)
ExtUnifyReturn ==
    /\ pc = "typing"
    /\ Top.fn = "unify" /\ Top.at = "after_pairs"
    /\ IF ret = NoneT
       THEN /\ Return(NoneT)
            /\ UNCHANGED typecache
       ELSE LET obj == ExtensionTypeCall(typecache, ret)
            IN  /\ typecache' = CacheAfter(typecache, obj)
                /\ Return(obj)
    /\ UNCHANGED <<held, req, ops, swapped, prev, casts, lowered, maxdepth>>

\* no common return type: the compiler raises TypingError, which the script
\* catches
RaiseTypingError ==
    /\ pc = "failed"
    /\ pc' = "error"
    /\ UNCHANGED <<typecache, held, req, ops, stack, ret, result, swapped,
                   prev, casts, lowered, maxdepth>>

\* the return types unified: the casts of the operands are resolved
ResolveCasts ==
    /\ pc = "unified"
    /\ casts' = resolveCasts(result, ops)
    /\ lowered' = <<NoCast(ops[1]), NoCast(ops[2])>>
    /\ pc' = "lowering"
    /\ UNCHANGED <<typecache, held, req, ops, stack, ret, result, swapped,
                   prev, maxdepth>>

\* the backend lowers the next cast descriptor with context.cast
LowerCast ==
    /\ pc = "lowering"
    /\ casts # <<>>
    /\ LET d == Head(casts)
       IN  lowered' = [lowered EXCEPT ![d.pos] = ContextCast(d.from, d.to)]
    /\ casts' = Tail(casts)
    /\ UNCHANGED <<typecache, held, req, ops, stack, ret, result, pc, swapped,
                   prev, maxdepth>>

\* every cast is lowered: compile_ptx_for_current_device returns
LowerDone ==
    /\ pc = "lowering"
    /\ casts = <<>>
    /\ pc' = "lowered"
    /\ UNCHANGED <<typecache, held, req, ops, stack, ret, result, swapped,
                   prev, casts, lowered, maxdepth>>

\* the next function is compiled for the same signature objects, its two
\* returns in the other order
CompileSwapped ==
    /\ pc \in {"lowered", "error"}
    /\ ~swapped
    /\ swapped' = TRUE
    /\ prev' = result
    /\ req' = <<req[2], req[1]>>
    /\ ops' = <<ops[2], ops[1]>>
    /\ stack' = <<Frame("unify_pairs", ops[2], ops[1], "start")>>
    /\ ret' = NoneT
    /\ result' = NoneT
    /\ casts' = <<>>
    /\ lowered' = <<NoCast(NoneT), NoCast(NoneT)>>
    /\ maxdepth' = 0
    /\ pc' = "typing"
    /\ UNCHANGED <<typecache, held>>

\* the compilation's types are dropped; an ExtensionType object nobody holds
\* is disposed of and leaves the intern cache
Release ==
    /\ pc \in {"lowered", "error"}
    /\ typecache' = IF held THEN typecache ELSE NoneT
    /\ pc' = "idle"
    /\ req' = <<NoneT, NoneT>>
    /\ ops' = <<NoneT, NoneT>>
    /\ stack' = <<>>
    /\ ret' = NoneT
    /\ result' = NoneT
    /\ swapped' = FALSE
    /\ prev' = NoneT
    /\ casts' = <<>>
    /\ lowered' = <<NoCast(NoneT), NoCast(NoneT)>>
    /\ maxdepth' = 0
    /\ UNCHANGED held

TypingStep ==
    \/ UnifyPairsEqual
    \/ UnifyPairsFirst
    \/ UnifyPairsSecond
    \/ UnifyPairsFinish
    \/ ExtUnifyCall
    \/ ExtUnifyReturn

Next ==
    \/ \E a \in TypeExprs, b \in TypeExprs, h \in BOOLEAN : Compile(a, b, h)
    \/ UnifyPairsEqual
    \/ UnifyPairsFirst
    \/ UnifyPairsSecond
    \/ UnifyPairsFinish
    \/ ExtUnifyCall
    \/ ExtUnifyReturn
    \/ RaiseTypingError
    \/ ResolveCasts
    \/ LowerCast
    \/ LowerDone
    \/ CompileSwapped
    \/ Release

Spec == Init /\ [][Next]_vars

\* the compiler runs a started unification to its end
FairSpec == Spec /\ WF_vars(TypingStep)

----------------------------------------------------------------------------
(* Vocabulary of the properties *)

Succeeded == pc \in {"unified", "lowering", "lowered"}

Failed == pc \in {"failed", "error"}

Finished == Succeeded \/ Failed

\* P(t) as the specification writes it: one more wrapper around t
P(t) == [wraps |-> t.wraps + 1, base |-> t.base]

\* t with every wrapper removed
Unwrapped(t) == [wraps |-> 0, base |-> t.base]

T(b) == [wraps |-> 0, base |-> b]

\* what unify_pairs answers for two types that are not extension types
PlainUnify(x, y) ==
    IF x = y THEN x
    ELSE IF HostUnify(x, y) # NoneT THEN HostUnify(x, y)
    ELSE IF HostUnify(y, x) # NoneT THEN HostUnify(y, x)
    ELSE ConversionFallback(x, y)

MaxOf(m, n) == IF m > n THEN m ELSE n

\* operand positions a cast was lowered for
CastPositions == {i \in 1..2 : lowered[i].impl # "nocast"}

----------------------------------------------------------------------------
(* C1: wrap propagation.  When exactly one operand is written P(X) and the *)
(* other is a plain Y with unify(X, Y) = Unified(Z), the unification, in   *)
(* either operand order, succeeds with P(Z).                               *)
C1_WrapPropagation ==
    \A i \in 1..2 :
        LET x == Value(req[i])
            y == req[3 - i]
        IN  (/\ Finished
             /\ req[i].wraps = 1
             /\ y.wraps = 0
             /\ PlainUnify(x, y) # NoneT)
            => (Succeeded /\ result = P(PlainUnify(x, y)))

----------------------------------------------------------------------------
(* C2: failure is total and is a value.  When the unwrapped operands have  *)
(* no common type the unification ends with None as its result, no cast is *)
(* resolved or lowered, and no type is ever built around None.             *)
NoTypeAroundNone ==
    \A t \in {ret, result, typecache, prev} : t.base = "None" => t = NoneT

C2_FailureIsTotal ==
    /\ NoTypeAroundNone
    /\ (/\ Finished
        /\ PlainUnify(Unwrapped(ops[1]), Unwrapped(ops[2])) = NoneT)
       => (/\ Failed
           /\ result = NoneT
           /\ casts = <<>>
           /\ CastPositions = {})

C2_Witness ==
    /\ pc = "error"
    /\ ops = <<P(T("int64")), T(TupleName)>>
    /\ result = NoneT

----------------------------------------------------------------------------
(* C3: symmetry.  Unifying the same two types in the other order gives the *)
(* same outcome, a failure included.                                       *)
C3_Symmetry == (Finished /\ swapped) => result = prev

C3_Witness ==
    /\ swapped
    /\ pc = "lowered"
    /\ ops = <<T("float32"), P(T("uint32"))>>
    /\ result = prev
    /\ result.wraps = 1

----------------------------------------------------------------------------
(* C4: reflexivity.  Unifying a type with itself succeeds with that type;  *)
(* an extension type gains no wrapper.                                     *)
C4_Reflexivity ==
    (Finished /\ ops[1] = ops[2]) => (Succeeded /\ result = ops[1])

C4_Witness ==
    /\ pc = "lowered"
    /\ ops = <<P(T("int64")), P(T("int64"))>>
    /\ result = P(T("int64"))

----------------------------------------------------------------------------
(* C5: cast descriptors are emitted exactly for the operands whose type    *)
(* differs from the unified type; hence none for {T, T}, one (Int64 ->     *)
(* P(Int64)) for {P(Int64), Int64}, and two for {P(UInt32), Float32},      *)
(* which unify to P(Float64).                                              *)
C5_CastDescriptors ==
    pc = "lowered" =>
        /\ \A i \in 1..2 : (i \in CastPositions) <=> (ops[i] # result)
        /\ req[1] = req[2] => CastPositions = {}
        /\ req = <<P(T("int64")), T("int64")>>
              => (CastPositions = {2} /\ result = P(T("int64")))
        /\ req = <<P(T("uint32")), T("float32")>>
              => (CastPositions = {1, 2} /\ result = P(T("float64")))

----------------------------------------------------------------------------
(* C6: a cast of any source into a Parametric target is a wrap: the value  *)
(* is converted to the target's inner type and put in a new wrapper, also  *)
(* when the source was written as a different Parametric type; no cast     *)
(* ends in a missing conversion.                                           *)
C6_CastIsWrap ==
    (pc = "lowered" /\ result.wraps > 0) =>
        \A i \in 1..2 :
            /\ lowered[i].impl # "error"
            /\ req[i] # result =>
                  (lowered[i].impl = "wrap" /\ lowered[i].layout = result)

----------------------------------------------------------------------------
(* C7: both operands Parametric.  unify(P(X), P(Y)) is P(R) when           *)
(* unify(X, Y) = Unified(R) and fails otherwise; never P(P(R)).            *)
C7_BothParametric ==
    LET x == Value(req[1])
        y == Value(req[2])
    IN  (Finished /\ req[1].wraps = 1 /\ req[2].wraps = 1) =>
            IF PlainUnify(x, y) # NoneT
            THEN Succeeded /\ result = P(PlainUnify(x, y))
            ELSE Failed /\ result = NoneT

----------------------------------------------------------------------------
(* C8: double wrap.  unify(P(P(X)), P(Y)) is P(P(Z)) when                  *)
(* unify(X, Y) = Unified(Z) and fails when X and Y do not unify.           *)
C8_DoubleWrap ==
    LET x == Value(Value(req[1]))
        y == Value(req[2])
    IN  (Finished /\ req[1].wraps = 2 /\ req[2].wraps = 1) =>
            IF PlainUnify(x, y) # NoneT
            THEN Succeeded /\ result = P(P(PlainUnify(x, y)))
            ELSE Failed /\ result = NoneT

----------------------------------------------------------------------------
(* C9: identity of Parametric types.  Two Parametric types are equal if    *)
(* and only if their inner types are equal, so the types written P(Int64)  *)
(* and P(Float64) are distinct and their unification does not take the     *)
(* equal-types return.                                                     *)
C9_ParametricIdentity ==
    (pc # "idle" /\ req[1].wraps > 0 /\ req[2].wraps > 0) =>
        /\ TypeEq(ops[1], ops[2]) <=> (req[1] = req[2])
        /\ ops = req

----------------------------------------------------------------------------
(* C10: termination.  A started unification ends, with a type or with      *)
(* None; every unify_pairs call inside another is on types with fewer      *)
(* wrappers in total; and the nesting of ExtensionType.unify calls equals  *)
(* (as claimed) or is at most (as the code does) the Parametric nesting    *)
(* depth of the inputs.                                                    *)
Measure(f) == f.first.wraps + f.second.wraps

InputDepth == MaxOf(ops[1].wraps, ops[2].wraps)

StrictlySmaller ==
    \A i \in 1..Len(stack), j \in 1..Len(stack) :
        (i < j /\ stack[i].fn = "unify_pairs" /\ stack[j].fn = "unify_pairs")
            => Measure(stack[j]) < Measure(stack[i])

====
